---- MODULE Spec2Model ----
(***************************************************************************)
(* Model of package iotcore (github.com/mtraver/iotcore): the Device type, *)
(* its JWT signer/verifier (NewJWT, VerifyJWT), the three credentials      *)
(* providers (no caching, in-memory caching, caching on disk), the option  *)
(* functions of options.go and Device.NewClient.                           *)
(*                                                                         *)
(* Time is counted in ticks, TicksPerSec ticks to a second, so that the    *)
(* truncation of time.Time to Unix seconds done by NewJWT and by the JWT   *)
(* library is visible.  A Device value is a heap object: the two Devices   *)
(* the caller constructs are devs[1] and devs[2]; every Device copied by   *)
(* the option call in NewClient and captured by a provider closure is a     *)
(* further element of devs, with its own token and its own mutex.          *)
(***************************************************************************)
EXTENDS Integers, Sequences, FiniteSets, TLC

\* ------------------------------------------------------------------ bounds
TicksPerSec == 2      \* clock resolution of the model
Epoch       == 100    \* Unix second of tick 0 (keeps every exp claim > 0)
MaxTime     == 3      \* the clock stops advancing at this tick
MaxCalls    == 2      \* provider invocations started in one behaviour
MaxProvs    == 2      \* providers created in one behaviour
MaxKeyChanges == 1    \* times the private key file is replaced
NumThreads  == 2      \* goroutines of the MQTT client calling providers
MaxOpts     == 2      \* length of the option list given to NewClient

Threads  == 1..NumThreads
Roots    == {1}                   \* Devices constructed by the caller
TTLs     == {1, 3}                \* ttl arguments, in ticks
TokPaths == {"jwt.txt"}           \* path arguments of PersistentlyCacheJWT
KeyPaths == {"key.pem"}           \* values of Device.PrivKeyPath
Keys     == {"KeyA", "KeyB"}      \* EC private keys a key file may hold
BadKey   == "unreadable"          \* key file missing or not an EC key PEM

\* ------------------------------------------------------------------ values
None     == "nil"
username == "unused"
Str(s)   == [s |-> s]
Empty    == Str("")
Sentinel == Str("error making new JWT")
Partial  == Str("eyJhbGciOi")     \* a file cut short by a failed write
NoFile   == [missing |-> TRUE]    \* ioutil.ReadFile returns an error

\* 1 * time.Minute, the ttl of the default provider, in ticks.
DefaultTTL == 60 * TicksPerSec

\* time.Time.Unix() of the wall clock at tick t.
Unix(t) == Epoch + (t \div TicksPerSec)

VARIABLES
    now,        \* wall clock, in ticks
    lib,        \* expiry comparison of the JWT library in the build
    keyfile,    \* content of the private key files, by path
    keyChanges, \* number of times keyfile was replaced
    file,       \* content of the token files, by path
    devs,       \* Device objects: PrivKeyPath, ProjectID, token, tmu (locked?)
    provs,      \* credentials providers (closures) created so far
    args,       \* arguments of the latest NewClient call, where recorded
    build,      \* result of the latest NewClient call
    th,         \* goroutines: position in a provider invocation and locals
    mints,      \* log of the NewJWT calls made by providers, by Device
    ncalls,     \* provider invocations started
    call        \* the latest call of a method of Device made by the caller itself

vars == <<now, lib, keyfile, keyChanges, file, devs, provs, args, build, th, mints,
          ncalls, call>>

\* ------------------------------------------------------- token signer/verifier
IsJWT(s) == "alg" \in DOMAIN s

\* jwt.Parse's claims validation (exp, then iat), at the Unix second u.
\* dgrijalva/jwt-go v3 accepts u <= exp, golang-jwt/jwt v4 only u < exp; a
\* zero exp claim is omitted from the JSON and so never expires.
ExpOK(s, u) ==
    IF s.exp = 0 THEN TRUE
    ELSE IF lib = "v3" THEN u <= s.exp ELSE u < s.exp

IatOK(s, u) == s.iat = 0 \/ u >= s.iat

\* Device.privateKey / Device.publicKey: the key pair read from PrivKeyPath.
privateKey(d) == keyfile[d.PrivKeyPath]

\* The signing methods of type *jwt.SigningMethodECDSA.
ECDSAMethods == {"ES256", "ES384", "ES512"}

\* A verifier that checks the claims but not the signature.
VerifyJWTUnsigned(d, jwtStr) ==
    IF ~IsJWT(jwtStr)
    THEN [ok |-> FALSE, err |-> "token is malformed"]
    ELSE IF jwtStr.alg \notin ECDSAMethods
    THEN [ok |-> FALSE, err |-> "unexpected signing method"]
    ELSE IF privateKey(d) = BadKey
    THEN [ok |-> FALSE, err |-> "key"]
    ELSE IF ~ExpOK(jwtStr, Unix(now))
    THEN [ok |-> FALSE, err |-> "token is expired"]
    ELSE [ok |-> TRUE, err |-> None]

\* A verifier whose keyfunc returns the key for every signing method.
VerifyJWTAnyMethod(d, jwtStr) ==
    IF ~IsJWT(jwtStr)
    THEN [ok |-> FALSE, err |-> "token is malformed"]
    ELSE IF privateKey(d) = BadKey
    THEN [ok |-> FALSE, err |-> "key"]
    ELSE IF ~ExpOK(jwtStr, Unix(now))
    THEN [ok |-> FALSE, err |-> "token is expired"]
    ELSE IF ~IatOK(jwtStr, Unix(now))
    THEN [ok |-> FALSE, err |-> "token used before issued"]
    ELSE IF jwtStr.key # privateKey(d)
    THEN [ok |-> FALSE, err |-> "signature is invalid"]
    ELSE [ok |-> TRUE, err |-> None]

\* jwt.Parse(jwtStr, keyfunc): the keyfunc rejects a method that is not ECDSA
\* and loads the public key; then the claims and the signature are checked.
VerifyJWT(d, jwtStr) ==
    IF ~IsJWT(jwtStr)
    THEN [ok |-> FALSE, err |-> "token is malformed"]
    ELSE IF jwtStr.alg \notin ECDSAMethods
    THEN [ok |-> FALSE, err |-> "unexpected signing method"]
    ELSE IF privateKey(d) = BadKey
    THEN [ok |-> FALSE, err |-> "key"]
    ELSE IF ~ExpOK(jwtStr, Unix(now))
    THEN [ok |-> FALSE, err |-> "token is expired"]
    ELSE IF ~IatOK(jwtStr, Unix(now))
    THEN [ok |-> FALSE, err |-> "token used before issued"]
    ELSE IF jwtStr.key # privateKey(d)
    THEN [ok |-> FALSE, err |-> "signature is invalid"]
    ELSE [ok |-> TRUE, err |-> None]

\* A NewJWT that stamps the token as issued when it expires.
NewJWTIssuedAtExpiry(d, ttl, t1, t2, sig) ==
    IF keyfile[d.PrivKeyPath] = BadKey
    THEN [tok |-> Empty, err |-> "iotcore: failed to parse priv key"]
    ELSE [tok |-> [alg |-> "ES256", key |-> keyfile[d.PrivKeyPath],
                   aud |-> d.ProjectID,
                   iat |-> Unix(t2 + ttl), exp |-> Unix(t2 + ttl), sig |-> sig],
          err |-> None]

\* NewJWT(ttl) called at tick t1, its second time.Now() read at tick t2; sig
\* stands for the randomness of the ECDSA signature (fresh on every call: the
\* Device and the number of the call on it).
NewJWT(d, ttl, t1, t2, sig) ==
    IF privateKey(d) = BadKey
    THEN [tok |-> Empty, err |-> "iotcore: failed to parse priv key"]
    ELSE [tok |-> [alg |-> "ES256", key |-> privateKey(d), aud |-> d.ProjectID,
                   iat |-> Unix(t1), exp |-> Unix(t2 + ttl), sig |-> sig],
          err |-> None]

\* ------------------------------------------------------------ providers
Fresh      == "credentialsProvider"
Cached     == "cachedCredentialsProvider"
Persistent == "persistentlyCachedCredentialsProvider"

\* A provider closure: dev is the Device object it works on, root the Device
\* of the caller it was obtained from.
Provider(kind, ttl, path, dev, root) ==
    [kind |-> kind, ttl |-> ttl, path |-> path, dev |-> dev, root |-> root]

NoRet == [user |-> None, pass |-> Empty]
\* A goroutine: pc, the provider p it calls or called last, the locals b and
\* token, the string seen that the provider verified, the pair ret it
\* returned, and n0, the number of NewJWT calls made on the provider's Device
\* when the invocation started.
Idle  == [pc |-> "idle", p |-> 0, b |-> Empty, seen |-> Empty, token |-> Empty,
          ret |-> NoRet, n0 |-> 0]

ProvOf(t) == provs[th[t].p]
DevOf(t)  == ProvOf(t).dev

\* The MQTT client calls the provider p on goroutine t (a connection attempt).
Call(t) ==
    /\ th[t].pc = "idle"
    /\ ncalls < MaxCalls
    /\ \E p \in 1..Len(provs) :
          th' = [th EXCEPT ![t] = [Idle EXCEPT
                    !.pc = IF provs[p].kind = Fresh THEN "mint" ELSE "lock",
                    !.p = p,
                    !.n0 = Len(mints[provs[p].dev])]]
    /\ ncalls' = ncalls + 1
    /\ UNCHANGED <<now, lib, keyfile, keyChanges, file, devs, provs, args, build, mints, call>>

\* A provider that reuses whatever it stored.
ReuseAlways(v) == TRUE

\* A provider that never reuses what it stored.
ReuseNever(v) == FALSE

\* The provider reuses the stored token: ok && err == nil.
Reuse(v) == v.ok /\ v.err = None

\* A provider that returns without unlocking.
UnlockNever(kind, locked) == locked

\* The mutex of the provider's Device after the deferred d.tmu.Unlock().
Unlock(kind, locked) == IF kind = Fresh THEN locked ELSE FALSE

\* A persistent provider that returns the file's content after writing it.
ReturnedFromFile(t, pass) ==
    [Idle EXCEPT !.p = th[t].p, !.n0 = th[t].n0,
                 !.ret = [user |-> username,
                          pass |-> IF th[t].pc = "store" /\ ProvOf(t).kind = Persistent
                                   THEN file'[ProvOf(t).path] ELSE pass]]

\* The goroutine after `return username, pass`: its locals are gone, the
\* caller holds the pair returned.
Returned(t, pass) ==
    [Idle EXCEPT !.p = th[t].p, !.n0 = th[t].n0,
                 !.ret = [user |-> username, pass |-> pass]]

\* if ok, err := d.VerifyJWT(c); ok && err == nil { return username, c }, with
\* the deferred Unlock when it returns; ds are the Devices before the return.
VerifyOrMint(t, c, ds) ==
    LET v == VerifyJWT(ds[DevOf(t)], c) IN
    IF Reuse(v)
    THEN /\ th' = [th EXCEPT ![t] = Returned(t, c)]
         /\ devs' = [ds EXCEPT ![DevOf(t)].tmu = Unlock(ProvOf(t).kind, @)]
    ELSE /\ th' = [th EXCEPT ![t].seen = c, ![t].pc = "mint"]
         /\ devs' = ds

\* A provider that takes no lock: Lock never waits.
LockedNever(d) == FALSE

\* Whether d.tmu.Lock() on the Device d has to wait.
Locked(d) == d.tmu

\* d.tmu.Lock(), and the statement after it: the cached provider verifies
\* d.token, the persistent one reads the file (b, err := ioutil.ReadFile(path)).
Lock(t) ==
    /\ th[t].pc = "lock"
    /\ ~Locked(devs[DevOf(t)])
    /\ LET ds == [devs EXCEPT ![DevOf(t)].tmu = TRUE] IN
          IF ProvOf(t).kind = Cached
          THEN VerifyOrMint(t, ds[DevOf(t)].token, ds)
          ELSE /\ devs' = ds
               /\ LET b == file[ProvOf(t).path] IN
                     th' = [th EXCEPT ![t].b = b,
                               ![t].pc = IF b = NoFile THEN "mint" ELSE "verify"]
    /\ UNCHANGED <<now, lib, keyfile, keyChanges, file, provs, args, build, mints, ncalls, call>>

\* The persistent provider verifies string(b).
Verify(t) ==
    /\ th[t].pc = "verify"
    /\ VerifyOrMint(t, th[t].b, devs)
    /\ UNCHANGED <<now, lib, keyfile, keyChanges, file, provs, args, build, mints, ncalls, call>>

\* A provider that hands on NewJWT's empty string when NewJWT fails.
AfterMintNoSentinel(kind, r) ==
    IF r.err # None
    THEN [token |-> r.tok, store |-> FALSE]
    ELSE [token |-> r.tok, store |-> kind # Fresh]

\* Caching providers that store the sentinel like a token.
AfterMintStoreSentinel(kind, r) ==
    IF r.err # None
    THEN [token |-> Sentinel, store |-> kind # Fresh]
    ELSE [token |-> r.tok, store |-> kind # Fresh]

\* Providers that all go on to store the token they minted.
AfterMintStoreAlways(kind, r) ==
    IF r.err # None
    THEN [token |-> Sentinel, store |-> FALSE]
    ELSE [token |-> r.tok, store |-> TRUE]

\* What the provider does with NewJWT's result r: the token it will return and
\* whether it goes on to store it.
AfterMint(kind, r) ==
    IF r.err # None
    THEN [token |-> Sentinel, store |-> FALSE]
    ELSE [token |-> r.tok, store |-> kind # Fresh]

\* token, err := d.NewJWT(ttl); the clock may advance between NewJWT's two
\* readings of time.Now().  A provider that does not store the token returns.
Mint(t) ==
    /\ th[t].pc = "mint"
    /\ \E dt \in {0, 1} :
          /\ now + dt <= MaxTime
          /\ LET r == NewJWT(devs[DevOf(t)], ProvOf(t).ttl, now, now + dt,
                             <<DevOf(t), Len(mints[DevOf(t)]) + 1>>)
                 a == AfterMint(ProvOf(t).kind, r) IN
                /\ IF a.store
                   THEN /\ th' = [th EXCEPT ![t].token = a.token,
                                            ![t].pc = "store"]
                        /\ devs' = devs
                   ELSE /\ th' = [th EXCEPT ![t] = Returned(t, a.token)]
                        /\ devs' = [devs EXCEPT ![DevOf(t)].tmu =
                                       Unlock(ProvOf(t).kind, @)]
                /\ mints' = [mints EXCEPT ![DevOf(t)] =
                                 Append(@, [kind |-> ProvOf(t).kind,
                                            seen |-> th[t].seen,
                                            tok |-> r.tok, err |-> r.err])]
          /\ now' = now + dt
    /\ UNCHANGED <<lib, keyfile, keyChanges, file, provs, args, build, ncalls, call>>

\* ioutil.WriteFile(path, []byte(token), 0600): the file as left by a call with
\* the given outcome; a failed write leaves the old file or a truncated one.
WriteOutcomes == {"ok", "open fails", "write fails"}
WriteFile(old, token, outcome) ==
    CASE outcome = "ok"          -> token
      [] outcome = "open fails"  -> old
      [] outcome = "write fails" -> Partial

\* Caching providers that both keep the token in d.token.
CacheForAll(d, kind, token) ==
    IF kind # Fresh THEN [d EXCEPT !.token = token] ELSE d

\* A provider that forgets to cache the token it minted.
CacheNothing(d, kind, token) == d

\* The Device after `d.token = token` of the cached provider.
Cache(d, kind, token) == IF kind = Cached THEN [d EXCEPT !.token = token] ELSE d

\* d.token = token, or ioutil.WriteFile(path, ...) with its error ignored;
\* then return username, token.
Store(t) ==
    /\ th[t].pc = "store"
    /\ devs' = [devs EXCEPT ![DevOf(t)] =
                   [Cache(@, ProvOf(t).kind, th[t].token) EXCEPT
                       !.tmu = Unlock(ProvOf(t).kind, @)]]
    /\ IF ProvOf(t).kind = Persistent
       THEN \E o \in WriteOutcomes :
               file' = [file EXCEPT ![ProvOf(t).path] =
                           WriteFile(@, th[t].token, o)]
       ELSE file' = file
    /\ th' = [th EXCEPT ![t] = Returned(t, th[t].token)]
    /\ UNCHANGED <<now, lib, keyfile, keyChanges, provs, args, build, mints, ncalls, call>>

\* ------------------------------------------------------------ environment
Tick ==
    /\ now < MaxTime
    /\ now' = now + 1
    /\ UNCHANGED <<lib, keyfile, keyChanges, file, devs, provs, args, build, th, mints, ncalls, call>>

\* The private key file is replaced, removed or corrupted.
KeyChange ==
    /\ keyChanges < MaxKeyChanges
    /\ \E k \in KeyPaths, c \in (Keys \cup {BadKey}) :
          /\ c # keyfile[k]
          /\ keyfile' = [keyfile EXCEPT ![k] = c]
    /\ keyChanges' = keyChanges + 1
    /\ UNCHANGED <<now, lib, file, devs, provs, args, build, th, mints, ncalls, call>>

\* ------------------------------------------------------------ NewClient
\* The option functions of options.go, and an option written by the caller
\* (such as the ConnectTimeout of NewClient's doc comment) that returns err.
JWTTTL(ttl) == [opt |-> "JWTTTL", ttl |-> ttl, path |-> None, err |-> None]
CacheJWT(ttl) == [opt |-> "CacheJWT", ttl |-> ttl, path |-> None, err |-> None]
PersistentlyCacheJWT(ttl, path) ==
    [opt |-> "PersistentlyCacheJWT", ttl |-> ttl, path |-> path, err |-> None]
Custom(err) == [opt |-> "Custom", ttl |-> 0, path |-> None, err |-> err]

OptionErrs == {"e1", "e2"}
Options ==
    {JWTTTL(ttl) : ttl \in TTLs} \cup {CacheJWT(ttl) : ttl \in TTLs}
    \cup {PersistentlyCacheJWT(ttl, path) : ttl \in TTLs, path \in TokPaths}
    \cup {Custom(e) : e \in OptionErrs \cup {None}}
OptionLists(max) == UNION {[1..n -> Options] : n \in 0..max}

\* The caCerts reader: whether ioutil.ReadAll fails, and how many certificates
\* AppendCertsFromPEM parses from what was read.
CAInputs == {[readErr |-> TRUE, certs |-> 0], [readErr |-> FALSE, certs |-> 0],
             [readErr |-> FALSE, certs |-> 1]}

\* Options that leave a provider alone once an option has set one.
ApplyOptionFirstWins(o, cred) ==
    IF cred.copy \/ o.opt = "Custom" THEN cred
    ELSE [kind |-> CASE o.opt = "JWTTTL" -> Fresh
                     [] o.opt = "CacheJWT" -> Cached
                     [] OTHER -> Persistent,
          ttl |-> o.ttl, path |-> o.path, copy |-> TRUE]

\* opts.SetCredentialsProvider as called by one option function o: the
\* provider is made on the option's own copy of the Device (copy = TRUE).
ApplyOption(o, cred) ==
    CASE o.opt = "JWTTTL" ->
            [kind |-> Fresh, ttl |-> o.ttl, path |-> None, copy |-> TRUE]
      [] o.opt = "CacheJWT" ->
            [kind |-> Cached, ttl |-> o.ttl, path |-> None, copy |-> TRUE]
      [] o.opt = "PersistentlyCacheJWT" ->
            [kind |-> Persistent, ttl |-> o.ttl, path |-> o.path, copy |-> TRUE]
      [] OTHER -> cred

\* A loop that calls every option and returns the last error.
RECURSIVE ApplyOptionsAll(_, _, _, _, _)
ApplyOptionsAll(cred, options, i, applied, err) ==
    IF i > Len(options)
    THEN [cred |-> cred, applied |-> applied, err |-> err]
    ELSE IF options[i].err # None
    THEN ApplyOptionsAll(cred, options, i + 1, Append(applied, i), options[i].err)
    ELSE ApplyOptionsAll(ApplyOption(options[i], cred), options, i + 1,
                         Append(applied, i), err)
ApplyOptionsLastError(cred, options, i, applied) ==
    ApplyOptionsAll(cred, options, i, applied, None)

\* for _, option := range options { if err := option(*d, opts); err != nil {
\* return nil, err } }, from option i on; applied lists the options called.
RECURSIVE ApplyOptions(_, _, _, _)
ApplyOptions(cred, options, i, applied) ==
    IF i > Len(options)
    THEN [cred |-> cred, applied |-> applied, err |-> None]
    ELSE IF options[i].err # None
    THEN [cred |-> cred, applied |-> Append(applied, i), err |-> options[i].err]
    ELSE ApplyOptions(ApplyOption(options[i], cred), options, i + 1,
                      Append(applied, i))

\* opts.SetCredentialsProvider(d.credentialsProvider(1 * time.Minute)), on d itself
DefaultCred == [kind |-> Fresh, ttl |-> DefaultTTL, path |-> None, copy |-> FALSE]

\* A NewClient that ignores the result of AppendCertsFromPEM.
BuildWithoutCertCheck(ca, options) ==
    IF ca.readErr
    THEN [cred |-> DefaultCred, applied |-> <<>>,
          err |-> "iotcore: failed to read CA certs"]
    ELSE ApplyOptions(DefaultCred, options, 1, <<>>)

\* What NewClient computes from its arguments.
Build(ca, options) ==
    IF ca.readErr
    THEN [cred |-> DefaultCred, applied |-> <<>>,
          err |-> "iotcore: failed to read CA certs"]
    ELSE IF ca.certs = 0
    THEN [cred |-> DefaultCred, applied |-> <<>>,
          err |-> "iotcore: no certs were parsed from given CA certs"]
    ELSE ApplyOptions(DefaultCred, options, 1, <<>>)

NoCall  == [op |-> None, arg |-> Empty, res |-> Empty, err |-> None,
            src |-> [minted |-> FALSE, ttl |-> 0]]
NoArgs  == [root |-> 0, ca |-> [readErr |-> FALSE, certs |-> 0], options |-> <<>>]
NoBuild == [applied |-> <<>>, err |-> None, client |-> 0]

\* d.NewClient(broker, caCerts, options...) on the Device ds[r], as a function
\* of the Devices ds and the providers ps there are.  The client is represented
\* by the provider its ClientOptions hold; a provider set by an option closes
\* over a copy of the Device made when the option was called.
NewClientResult(ds, ps, r, ca, options) ==
    LET res == Build(ca, options)
        dev == IF res.cred.copy THEN Len(ds) + 1 ELSE r IN
    IF res.err # None
    THEN [devs |-> ds, provs |-> ps,
          build |-> [applied |-> res.applied, err |-> res.err, client |-> 0]]
    ELSE [devs |-> IF res.cred.copy THEN Append(ds, ds[r]) ELSE ds,
          provs |-> Append(ps, Provider(res.cred.kind, res.cred.ttl,
                                        res.cred.path, dev, r)),
          build |-> [applied |-> res.applied, err |-> None,
                     client |-> Len(ps) + 1]]

NewClient(r, ca, options) ==
    /\ Len(provs) < MaxProvs
    /\ LET n == NewClientResult(devs, provs, r, ca, options) IN
          /\ devs' = n.devs
          /\ provs' = n.provs
          /\ build' = n.build
          /\ mints' = [d \in DOMAIN n.devs |->
                           IF d \in DOMAIN mints THEN mints[d] ELSE <<>>]
    /\ args' = [root |-> r, ca |-> ca, options |-> options]
    /\ UNCHANGED <<now, lib, keyfile, keyChanges, file, th, ncalls, call>>

\* Code of the package (a test, say) takes a caching provider from the Device
\* itself: d.cachedCredentialsProvider(ttl) and its persistent sibling have
\* pointer receivers, so the provider works on ds[r], not on a copy.
GetProvider(ps, r, kind, ttl, path) ==
    Append(ps, Provider(kind, ttl, path, r, r))

\* ------------------------------------------------------------ set-up
\* The ways the caller obtains one provider with ttl from the Device r: a
\* client built with no option or with one of the options of options.go, or a
\* caching provider taken from the Device itself.
GoodCA == [readErr |-> FALSE, certs |-> 1]
Obtain(r, ttl, path) ==
    << [op |-> "NewClient", root |-> r, options |-> <<>>, kind |-> None],
       [op |-> "NewClient", root |-> r, options |-> <<JWTTTL(ttl)>>, kind |-> None],
       [op |-> "NewClient", root |-> r, options |-> <<CacheJWT(ttl)>>, kind |-> None],
       [op |-> "NewClient", root |-> r,
        options |-> <<PersistentlyCacheJWT(ttl, path)>>, kind |-> None],
       [op |-> "GetProvider", root |-> r, options |-> <<path>>, kind |-> Cached],
       [op |-> "GetProvider", root |-> r, options |-> <<path>>, kind |-> Persistent] >>

\* The Devices and providers after the steps ops[i..] of the caller's set-up.
RECURSIVE SetUp(_, _, _, _, _)
SetUp(ops, i, ttl, ds, ps) ==
    IF i > Len(ops) THEN [devs |-> ds, provs |-> ps]
    ELSE IF ops[i].op = "NewClient"
    THEN LET n == NewClientResult(ds, ps, ops[i].root, GoodCA, ops[i].options) IN
         SetUp(ops, i + 1, ttl, n.devs, n.provs)
    ELSE SetUp(ops, i + 1, ttl, ds,
               GetProvider(ps, ops[i].root, ops[i].kind, ttl,
                           IF ops[i].kind = Persistent THEN ops[i].options[1] ELSE None))

\* ------------------------------------------------------------ specification
Device == [ProjectID |-> "my-gcp-project", RegistryID |-> "my-registry",
           DeviceID |-> "my-device", PrivKeyPath |-> "key.pem",
           Region |-> "us-central1", token |-> Empty, tmu |-> FALSE]

InitEnv ==
    /\ now = 0
    /\ lib \in {"v3", "v4"}
    /\ keyfile = [k \in KeyPaths |-> "KeyA"]
    /\ keyChanges = 0
    /\ file = [f \in TokPaths |-> NoFile]
    /\ th = [t \in Threads |-> Idle]
    /\ ncalls = 0
    /\ args = NoArgs
    /\ build = NoBuild
    /\ call = NoCall

\* The caller has constructed its Device and obtained up to MaxProvs providers
\* from it (in the order of Obtain: the order in which two providers are
\* obtained does not matter to them); the MQTT clients then call the providers.
Init ==
    /\ InitEnv
    /\ \E r \in Roots, ttl \in TTLs, path \in TokPaths, n \in 1..MaxProvs :
         \E ix \in [1..n -> DOMAIN Obtain(r, ttl, path)] :
            /\ \A i \in 1..(n - 1) : ix[i] <= ix[i + 1]
            /\ LET ops == [i \in 1..n |-> Obtain(r, ttl, path)[ix[i]]]
                   s == SetUp(ops, 1, ttl, [q \in Roots |-> Device], <<>>) IN
                  /\ devs = s.devs
                  /\ provs = s.provs
                  /\ mints = [d \in DOMAIN s.devs |-> <<>>]

Next ==
    \/ \E t \in Threads : Call(t)
    \/ \E t \in Threads : Lock(t)
    \/ \E t \in Threads : Verify(t)
    \/ \E t \in Threads : Mint(t)
    \/ \E t \in Threads : Store(t)
    \/ Tick
    \/ KeyChange

Spec == Init /\ [][Next]_vars

\* The Go scheduler runs every goroutine that can take a step; a goroutine
\* in d.tmu.Lock() can take its step while the mutex is free.
Fairness ==
    \A t \in Threads :
        /\ WF_vars(Lock(t))
        /\ WF_vars(Verify(t))
        /\ WF_vars(Mint(t))
        /\ WF_vars(Store(t))

\* The set-ups in which every provider is a caching one.
InitLive == Init /\ \A p \in 1..Len(provs) : provs[p].kind # Fresh

SpecLive == InitLive /\ [][Next]_vars /\ Fairness

\* NewClient as an operation: the caller builds clients, with every option list.
InitBuild ==
    /\ InitEnv
    /\ devs = [r \in Roots |-> Device]
    /\ provs = <<>>
    /\ mints = [r \in Roots |-> <<>>]

NextBuild ==
    \E r \in Roots, ca \in CAInputs, options \in OptionLists(MaxOpts) :
        NewClient(r, ca, options)

SpecBuild == InitBuild /\ [][NextBuild]_vars

\* ------------------------------------------------------------ methods of Device
\* A client ID with the registry before the location.
ClientIDRegistryFirst(d) ==
    "projects/" \o d.ProjectID \o "/registries/" \o d.RegistryID
        \o "/locations/" \o d.Region \o "/devices/" \o d.DeviceID

\* fmt.Sprintf with a format of literal text and %v verbs, on string arguments.
ClientID(d) ==
    "projects/" \o d.ProjectID \o "/locations/" \o d.Region
        \o "/registries/" \o d.RegistryID \o "/devices/" \o d.DeviceID
ConfigTopic(d)    == "/devices/" \o d.DeviceID \o "/config"
\* A command topic without the wildcard.
CommandTopicNoWildcard(d) == "/devices/" \o d.DeviceID \o "/commands"
CommandTopic(d)   == "/devices/" \o d.DeviceID \o "/commands/#"
TelemetryTopic(d) == "/devices/" \o d.DeviceID \o "/events"
StateTopic(d)     == "/devices/" \o d.DeviceID \o "/state"

Renderers == {"ClientID", "ConfigTopic", "CommandTopic", "TelemetryTopic",
              "StateTopic"}
Render(op, d) ==
    CASE op = "ClientID"       -> ClientID(d)
      [] op = "ConfigTopic"    -> ConfigTopic(d)
      [] op = "CommandTopic"   -> CommandTopic(d)
      [] op = "TelemetryTopic" -> TelemetryTopic(d)
      [] op = "StateTopic"     -> StateTopic(d)

\* A certificate file as DeviceIDFromCert sees it: whether ioutil.ReadFile
\* finds it and can read it, and the PEM blocks pem.Decode finds in it, each
\* with its type, whether x509.ParseCertificate accepts its bytes, and the
\* subject common name if it does.
Block(type, parses, cn) == [type |-> type, parses |-> parses, cn |-> cn]
CertFile(exists, readable, blocks) ==
    [exists |-> exists, readable |-> readable, blocks |-> blocks]
CertFiles ==
    { CertFile(FALSE, FALSE, <<>>),
      CertFile(TRUE, FALSE, <<>>),
      CertFile(TRUE, TRUE, <<>>),
      CertFile(TRUE, TRUE, <<Block("EC PRIVATE KEY", FALSE, "")>>),
      CertFile(TRUE, TRUE, <<Block("CERTIFICATE", FALSE, "")>>),
      CertFile(TRUE, TRUE, <<Block("CERTIFICATE", TRUE, "foo")>>),
      CertFile(TRUE, TRUE, <<Block("CERTIFICATE", TRUE, "")>>),
      CertFile(TRUE, TRUE, <<Block("EC PRIVATE KEY", FALSE, ""),
                             Block("CERTIFICATE", TRUE, "foo")>>),
      CertFile(TRUE, TRUE, <<Block("CERTIFICATE", TRUE, "foo"),
                             Block("CERTIFICATE", TRUE, "root-ca")>>) }

\* A DeviceIDFromCert that does not tell a missing file from an unreadable one.
DeviceIDFromCertNoExistCheck(f) ==
    IF ~f.exists \/ ~f.readable
    THEN [id |-> "", err |-> "iotcore: failed to read cert"]
    ELSE IF f.blocks = <<>> \/ f.blocks[1].type # "CERTIFICATE"
    THEN [id |-> "", err |-> "iotcore: failed to decode PEM certificate"]
    ELSE IF ~f.blocks[1].parses
    THEN [id |-> "", err |-> "x509: malformed certificate"]
    ELSE [id |-> f.blocks[1].cn, err |-> None]

DeviceIDFromCert(f) ==
    IF ~f.exists
    THEN [id |-> "", err |-> "iotcore: cert file does not exist"]
    ELSE IF ~f.readable
    THEN [id |-> "", err |-> "iotcore: failed to read cert"]
    ELSE IF f.blocks = <<>> \/ f.blocks[1].type # "CERTIFICATE"
    THEN [id |-> "", err |-> "iotcore: failed to decode PEM certificate"]
    ELSE IF ~f.blocks[1].parses
    THEN [id |-> "", err |-> "x509: malformed certificate"]
    ELSE [id |-> f.blocks[1].cn, err |-> None]

\* Devices the caller may construct: the one of the tests, the one of the
\* example, and ones with empty fields or a separator in the device ID.
DeviceValues ==
    { Device,
      [Device EXCEPT !.ProjectID = "myproject", !.RegistryID = "myregistery",
                     !.DeviceID = "foo"],
      [Device EXCEPT !.ProjectID = "", !.RegistryID = "", !.DeviceID = "",
                     !.Region = ""],
      [Device EXCEPT !.DeviceID = "a/b#", !.Region = ""],
      [Device EXCEPT !.ProjectID = "other-project", !.Region = "europe-west1"] }

\* ttl arguments of NewJWT that are not positive, in ticks.
NonPositiveTTLs == {0, -1, -3}

\* A token made by other software: header alg, signed with key, with the
\* claims iat and exp (0: the claim is absent).
Foreign(alg, key, iat, exp) ==
    [alg |-> alg, key |-> key, aud |-> "my-gcp-project", iat |-> iat,
     exp |-> exp, sig |-> <<0, 0>>]
\* Strings passed to VerifyJWT that NewJWT did not make.
ForeignStrings ==
    { Empty, Sentinel, Partial,
      Foreign("HS256", "KeyA", Unix(0), Unix(MaxTime) + 60),
      Foreign("none", "KeyA", Unix(0), Unix(MaxTime) + 60),
      Foreign("ES384", "KeyA", Unix(0), Unix(MaxTime) + 60),
      Foreign("ES256", "KeyA", 0, 0),
      Foreign("ES256", "KeyA", Unix(MaxTime) + 60, Unix(MaxTime) + 120),
      Foreign("ES256", "KeyB", Unix(0), Unix(MaxTime) + 60) }

\* The record of a call: the method, its argument, what it returned, and for
\* a VerifyJWT call on a token NewJWT made, the ttl NewJWT was given.
CallOf(op, arg, res, err, src) ==
    [op |-> op, arg |-> arg, res |-> res, err |-> err, src |-> src]
NotMinted == [minted |-> FALSE, ttl |-> 0]
MintedWith(ttl) == [minted |-> TRUE, ttl |-> ttl]

\* d.NewJWT(ttl), called by the caller on its Device.
CallNewJWT(d, ttl) ==
    /\ \E dt \in {0, 1} :
          /\ now + dt <= MaxTime
          /\ now' = now + dt
          /\ LET r == NewJWT(devs[d], ttl, now, now + dt, <<d, 0>>) IN
                call' = CallOf("NewJWT", Str(""), r.tok, r.err, MintedWith(ttl))
    /\ UNCHANGED <<lib, keyfile, keyChanges, file, devs, provs, args, build, th,
                   mints, ncalls>>

\* The strings the caller has at hand: the token NewJWT returned last or
\* VerifyJWT was given last, and the strings of other origin.
AtHand ==
    (IF call.op = "NewJWT" /\ call.err = None
     THEN {[s |-> call.res, src |-> call.src]} ELSE {})
    \cup (IF call.op = "VerifyJWT"
          THEN {[s |-> call.arg, src |-> call.src]} ELSE {})
    \cup {[s |-> f, src |-> NotMinted] : f \in ForeignStrings}

\* d.VerifyJWT(jwtStr)
CallVerifyJWT(d) ==
    /\ \E a \in AtHand :
          LET v == VerifyJWT(devs[d], a.s) IN
          call' = CallOf("VerifyJWT", a.s, v.ok, v.err, a.src)
    /\ UNCHANGED <<now, lib, keyfile, keyChanges, file, devs, provs, args, build,
                   th, mints, ncalls>>

\* d.ClientID(), d.ConfigTopic(), ... : pointer receivers that only read d.
CallRender(d, op) ==
    /\ call' = CallOf(op, Str(""), Render(op, devs[d]), None, NotMinted)
    /\ UNCHANGED <<now, lib, keyfile, keyChanges, file, devs, provs, args, build,
                   th, mints, ncalls>>

CallDeviceIDFromCert(f) ==
    /\ LET r == DeviceIDFromCert(f) IN
          call' = CallOf("DeviceIDFromCert", f, r.id, r.err, NotMinted)
    /\ UNCHANGED <<now, lib, keyfile, keyChanges, file, devs, provs, args, build,
                   th, mints, ncalls>>

\* The caller constructs a Device and calls its methods.
InitMethods ==
    /\ InitEnv
    /\ devs \in {[r \in Roots |-> d] : d \in DeviceValues}
    /\ provs = <<>>
    /\ mints = [r \in Roots |-> <<>>]

NextMethods ==
    \/ \E d \in Roots, ttl \in TTLs \cup NonPositiveTTLs : CallNewJWT(d, ttl)
    \/ \E d \in Roots : CallVerifyJWT(d)
    \/ \E d \in Roots, op \in Renderers : CallRender(d, op)
    \/ \E f \in CertFiles : CallDeviceIDFromCert(f)
    \/ Tick
    \/ KeyChange

SpecMethods == InitMethods /\ [][NextMethods]_vars


\* ------------------------------------------------------------ claims
\* The goroutine t has returned from an invocation of a provider of kind k.
Done(t, k) == th[t].pc = "idle" /\ th[t].p # 0 /\ provs[th[t].p].kind = k

\* The NewJWT calls made by the providers of kind k on the Device d.
MintsBy(d, k) == SelectSeq(mints[d], LAMBDA m : m.kind = k)

\* The goroutine t holds the mutex of its provider's Device.
InCriticalSection(t) ==
    /\ th[t].pc \in {"verify", "mint", "store"}
    /\ ProvOf(t).kind # Fresh

\* C1: callers racing on the empty cache of an in-memory caching provider,
\* the key file untouched (so that minting succeeds): as long as the token
\* minted first has not expired, NewJWT was called exactly once on that
\* Device's cache and every invocation that has returned returned that token.
C1_OneMintUnderRace ==
    \A d \in DOMAIN devs :
        LET ms == MintsBy(d, Cached) IN
        (/\ keyChanges = 0
         /\ ms # <<>>
         /\ ms[1].seen = Empty
         /\ ms[1].err = None
         /\ Unix(now) < ms[1].tok.exp)
        => /\ Len(ms) = 1
           /\ \A t \in Threads :
                 (Done(t, Cached) /\ DevOf(t) = d)
                 => th[t].ret = [user |-> "unused", pass |-> ms[1].tok]

\* Two goroutines called the same in-memory provider before any token was
\* minted, one minted, and both have returned the one token.
C1_Witness ==
    \E t1, t2 \in Threads :
        /\ t1 # t2
        /\ Done(t1, Cached) /\ Done(t2, Cached)
        /\ th[t1].p = th[t2].p
        /\ th[t1].n0 = 0 /\ th[t2].n0 = 0
        /\ keyChanges = 0
        /\ Len(MintsBy(DevOf(t1), Cached)) = 1
        /\ Unix(now) < MintsBy(DevOf(t1), Cached)[1].tok.exp
        /\ th[t1].ret.pass = MintsBy(DevOf(t1), Cached)[1].tok
        /\ th[t2].ret = th[t1].ret

\* The providers of t1 and t2 work on the same stored token: the cached token
\* of the Device they were obtained from, or the same token file.
SameStore(t1, t2) ==
    /\ ProvOf(t1).root = ProvOf(t2).root
    /\ ProvOf(t1).kind = ProvOf(t2).kind
    /\ ProvOf(t1).kind = Persistent => ProvOf(t1).path = ProvOf(t2).path

\* C2: the caching providers obtained from one Device serialize on one lock of
\* that Device: no two goroutines are at once inside the critical sections of
\* two such providers over the cached token or over the same token file.
C2_OneLockPerDevice ==
    \A t1, t2 \in Threads :
        (t1 # t2 /\ InCriticalSection(t1) /\ InCriticalSection(t2)
            /\ SameStore(t1, t2))
        => FALSE

\* The stored string c is a token of the Device d's key whose exp claim lies
\* after the present second / before it.
Unexpired(d, c) ==
    /\ IsJWT(c) /\ c.alg = "ES256" /\ c.key = privateKey(d)
    /\ Unix(now) < c.exp
Expired(c) == IsJWT(c) /\ Unix(now) > c.exp

\* The step of t on which the cached provider checks d.token.
CachedCheck(t) ==
    th[t].pc = "lock" /\ th'[t].pc # "lock" /\ ProvOf(t).kind = Cached

C4_PersistedTokenReused ==
    [][\A t \in Threads :
          (th[t].pc = "verify" /\ th'[t].pc # "verify"
              /\ Unexpired(devs[DevOf(t)], th[t].b))
          => /\ th'[t].pc = "idle"
             /\ th'[t].ret = [user |-> "unused", pass |-> th[t].b]
             /\ mints' = mints
             /\ file' = file
    ]_vars

\* A provider on one Device object minted a token and wrote it to the file;
\* a provider on another Device object, which minted nothing, returned it.
C4_Witness ==
    \E t \in Threads, d1 \in DOMAIN devs :
        /\ Done(t, Persistent)
        /\ d1 # DevOf(t)
        /\ mints[DevOf(t)] = <<>>
        /\ Len(mints[d1]) = 1
        /\ mints[d1][1].kind = Persistent
        /\ mints[d1][1].err = None
        /\ th[t].ret.pass = mints[d1][1].tok
        /\ file[ProvOf(t).path] = mints[d1][1].tok
        /\ Unix(now) < mints[d1][1].tok.exp

\* C5: in each of the three providers, a NewJWT call that fails (the key file
\* is unreadable) ends the invocation at once: it returns ("unused",
\* "error making new JWT") and a caching provider's mutex is free again.
C5_SentinelOnMintFailure ==
    [][\A t \in Threads :
          (th[t].pc = "mint" /\ th'[t] # th[t]
              /\ privateKey(devs[DevOf(t)]) = BadKey)
          => /\ th'[t].pc = "idle"
             /\ th'[t].ret = [user |-> "unused",
                              pass |-> [s |-> "error making new JWT"]]
             /\ ProvOf(t).kind # Fresh => ~devs'[DevOf(t)].tmu
    ]_vars

\* Two invocations of providers of different kinds, one of them persistent,
\* have returned the sentinel after a failed NewJWT.
C5_Witness ==
    \E t1, t2 \in Threads :
        /\ Done(t1, Persistent)
        /\ Done(t2, Cached) \/ Done(t2, Fresh)
        /\ th[t1].ret = [user |-> "unused", pass |-> Sentinel]
        /\ th[t2].ret = [user |-> "unused", pass |-> Sentinel]
        /\ \E m \in 1..Len(mints[DevOf(t1)]) : mints[DevOf(t1)][m].err # None
        /\ \E m \in 1..Len(mints[DevOf(t2)]) : mints[DevOf(t2)][m].err # None

\* The token the persistent provider of t minted in this invocation.
MintedBy(t) ==
    /\ IsJWT(th[t].token)
    /\ \E m \in 1..Len(mints[DevOf(t)]) :
          /\ mints[DevOf(t)][m].kind = Persistent
          /\ mints[DevOf(t)][m].err = None
          /\ mints[DevOf(t)][m].tok = th[t].token

\* C6: durable caching.  When NewJWT succeeded and ioutil.WriteFile fails
\* (the file is not left holding the token), the invocation still returns
\* ("unused", the token just minted): not the sentinel and not what it read.
C6_WriteFailureSwallowed ==
    [][\A t \in Threads :
          (th[t].pc = "store" /\ th'[t].pc = "idle"
              /\ ProvOf(t).kind = Persistent
              /\ file'[ProvOf(t).path] # th[t].token)
          => /\ MintedBy(t)
             /\ th'[t].ret = [user |-> "unused", pass |-> th[t].token]
             /\ th[t].token # Sentinel
             /\ th[t].token # th[t].b
    ]_vars

\* A persistent invocation has returned a minted token although no file
\* exists: its write failed.
C6_Witness ==
    \E t \in Threads :
        /\ Done(t, Persistent)
        /\ IsJWT(th[t].ret.pass)
        /\ file[ProvOf(t).path] = NoFile
        /\ mints[DevOf(t)] # <<>>
        /\ mints[DevOf(t)][Len(mints[DevOf(t)])].tok = th[t].ret.pass

\* NewClient has been called and got past the CA certificates.
BuiltWithCerts == args.root # 0 /\ ~args.ca.readErr /\ args.ca.certs > 0

\* The options of the latest NewClient call that return an error, and those
\* that set a credentials provider.
FailingOptions ==
    {i \in 1..Len(args.options) : args.options[i].err # None}
CredentialOptions ==
    {i \in 1..Len(args.options) :
        args.options[i].opt \in {"JWTTTL", "CacheJWT", "PersistentlyCacheJWT"}}
Least(S) == CHOOSE i \in S : \A j \in S : i <= j
Greatest(S) == CHOOSE i \in S : \A j \in S : j <= i

\* C7: NewClient calls the options in the order given, each once; at the
\* first one that returns an error it stops, returns that error and no
\* client, and calls none of the options after it.
C7_OptionsInOrderUntilError ==
    BuiltWithCerts =>
        IF FailingOptions = {}
        THEN /\ build.err = None
             /\ build.client # 0
             /\ build.applied = [i \in 1..Len(args.options) |-> i]
        ELSE LET k == Least(FailingOptions) IN
             /\ build.err = args.options[k].err
             /\ build.client = 0
             /\ build.applied = [i \in 1..k |-> i]

\* NewClient was given a failing option followed by another option, and
\* called the failing one only.
C7_Witness ==
    /\ BuiltWithCerts
    /\ Len(args.options) >= 2
    /\ args.options[1].err = "e1"
    /\ args.options[2] # args.options[1]
    /\ build.applied = <<1>>
    /\ build.err = "e1"
    /\ build.client = 0

\* C8: the provider of a client built by NewClient is the no-caching provider
\* with ttl one minute when no option sets one, and otherwise the provider of
\* the last option in the list that sets one.
C8_LastCredentialOptionWins ==
    (BuiltWithCerts /\ build.client # 0) =>
        LET p == provs[build.client] IN
        IF CredentialOptions = {}
        THEN /\ p.kind = "credentialsProvider"
             /\ p.ttl = 60 * TicksPerSec
        ELSE LET o == args.options[Greatest(CredentialOptions)] IN
             /\ p.ttl = o.ttl
             /\ p.path = o.path
             /\ p.kind = CASE o.opt = "JWTTTL" -> "credentialsProvider"
                           [] o.opt = "CacheJWT" -> "cachedCredentialsProvider"
                           [] OTHER -> "persistentlyCachedCredentialsProvider"

\* A client was built with two options that set different providers, and has
\* the second one's.
C8_Witness ==
    /\ BuiltWithCerts
    /\ build.client # 0
    /\ Len(args.options) = 2
    /\ args.options[1].opt = "CacheJWT"
    /\ args.options[2].opt = "PersistentlyCacheJWT"
    /\ args.options[1].ttl # args.options[2].ttl
    /\ provs[build.client].kind = Persistent
    /\ provs[build.client].ttl = args.options[2].ttl

\* C9: when caCerts cannot be read or no certificate parses from it,
\* NewClient returns an error and no client, and has called no option.
C9_NoCertsNoClient ==
    (args.root # 0 /\ (args.ca.readErr \/ args.ca.certs = 0)) =>
        /\ build.err # None
        /\ build.client = 0
        /\ build.applied = <<>>

\* NewClient was given options and CA input from which no certificate parses.
C9_Witness ==
    /\ args.root # 0
    /\ ~args.ca.readErr
    /\ args.ca.certs = 0
    /\ Len(args.options) > 0
    /\ build.err = "iotcore: no certs were parsed from given CA certs"
    /\ build.applied = <<>>

\* C10: a token NewJWT returned on a Device verifies on that Device, with
\* (true, nil), at every moment at which the Device's key file holds the key
\* that signed it and the present second lies before the token's exp claim.
C10_RoundTrip ==
    \A d \in DOMAIN devs : \A m \in 1..Len(mints[d]) :
        LET tok == mints[d][m].tok IN
        (/\ mints[d][m].err = None
         /\ privateKey(devs[d]) = tok.key
         /\ Unix(now) < tok.exp)
        => VerifyJWT(devs[d], tok) = [ok |-> TRUE, err |-> None]

\* A token is verified a second or more after it was issued and before it
\* expires.
C10_Witness ==
    \E d \in DOMAIN devs : \E m \in 1..Len(mints[d]) :
        LET tok == mints[d][m].tok IN
        /\ mints[d][m].err = None
        /\ privateKey(devs[d]) = tok.key
        /\ tok.iat < Unix(now)
        /\ Unix(now) < tok.exp
        /\ tok.exp < Unix(0) + 60
        /\ VerifyJWT(devs[d], tok).ok

\* C11: VerifyJWT on a token that NewJWT made with a zero or negative ttl
\* returns (false, non-nil error), whether it is called at once or later.
C11_NonPositiveTTLRejected ==
    (call.op = "VerifyJWT" /\ call.src.minted /\ call.src.ttl <= 0)
    => (call.res = FALSE /\ call.err # None)

\* The step is a call of VerifyJWT by the caller on its Device.
VerifyCalled ==
    /\ call' # call
    /\ call'.op = "VerifyJWT"
    /\ UNCHANGED <<now, keyfile, devs>>

\* C12: VerifyJWT on a Device whose key file holds the key K2, given a token
\* that NewJWT made when the key was another key K1, returns (false, non-nil
\* error), also when the token has not expired.
C12_OtherKeyRejected ==
    [][\A d \in DOMAIN devs :
          (/\ VerifyCalled
           /\ call'.src.minted
           /\ privateKey(devs[d]) \in Keys
           /\ call'.arg.key # privateKey(devs[d]))
          => (call'.res = FALSE /\ call'.err # None)
    ]_vars

\* A token made with one key was rejected for its signature, before its
\* expiry, by the Device now holding another key.
C12_Witness ==
    /\ call.op = "VerifyJWT"
    /\ call.src.minted
    /\ call.src.ttl > 0
    /\ privateKey(devs[1]) \in Keys
    /\ call.arg.key \in Keys
    /\ call.arg.key # privateKey(devs[1])
    /\ Unix(now) < call.arg.exp
    /\ call.res = FALSE
    /\ call.err = "signature is invalid"

RenderCalled(op) == call' # call /\ call'.op = op

\* C14: ClientID() returns "projects/" + ProjectID + "/locations/" + Region +
\* "/registries/" + RegistryID + "/devices/" + DeviceID, the fields in this
\* order and an empty field as an empty segment, and leaves the Device as it
\* was.
C14_ClientIDFormat ==
    [][\A d \in DOMAIN devs :
          RenderCalled("ClientID") =>
            /\ call'.res = "projects/" \o devs[d].ProjectID
                              \o "/locations/" \o devs[d].Region
                              \o "/registries/" \o devs[d].RegistryID
                              \o "/devices/" \o devs[d].DeviceID
            /\ (devs[d].ProjectID = "" /\ devs[d].Region = ""
                   /\ devs[d].RegistryID = "" /\ devs[d].DeviceID = "")
               => call'.res = "projects//locations//registries//devices/"
            /\ (devs[d].ProjectID = "myproject" /\ devs[d].DeviceID = "foo")
               => call'.res = "projects/myproject/locations/us-central1/registries/myregistery/devices/foo"
            /\ devs' = devs
    ]_vars

\* ClientID() was called on a Device with an empty Region.
C14_Witness ==
    /\ call.op = "ClientID"
    /\ devs[1].Region = ""
    /\ devs[1].ProjectID # ""
    /\ call.res = "projects/my-gcp-project/locations//registries/my-registry/devices/a/b#"

\* The last two characters of the string s.
Suffix2(s) == SubSeq(s, Len(s) - 1, Len(s))

\* C15: ConfigTopic(), CommandTopic(), TelemetryTopic() and StateTopic()
\* return "/devices/" + DeviceID + "/config", "/commands/#", "/events" and
\* "/state"; the command topic ends in "/#"; each is the same for every
\* Device with this DeviceID, and the same when called again, the Device
\* being left as it was.
C15_TopicFormats ==
    [][\A d \in DOMAIN devs :
          \A op \in {"ConfigTopic", "CommandTopic", "TelemetryTopic", "StateTopic"} :
            RenderCalled(op) =>
              /\ call'.res = "/devices/" \o devs[d].DeviceID
                                \o (CASE op = "ConfigTopic" -> "/config"
                                      [] op = "CommandTopic" -> "/commands/#"
                                      [] op = "TelemetryTopic" -> "/events"
                                      [] op = "StateTopic" -> "/state")
              /\ op = "CommandTopic" => Suffix2(call'.res) = "/#"
              /\ \A e \in DeviceValues :
                    e.DeviceID = devs[d].DeviceID => Render(op, e) = call'.res
              /\ devs' = devs
              /\ Render(op, devs'[d]) = call'.res
    ]_vars

\* CommandTopic() was called on a Device whose ID itself ends in "#".
C15_Witness ==
    /\ call.op = "CommandTopic"
    /\ devs[1].DeviceID = "a/b#"
    /\ call.res = "/devices/a/b#/commands/#"

\* C16: DeviceIDFromCert returns the subject common name and a nil error for
\* a readable file whose first PEM block is a CERTIFICATE that parses; ""
\* and the 'does not exist' error for a missing file; "" and a decode or
\* parse error for a readable file with no PEM block, with a first block of
\* another type, or with a CERTIFICATE block that does not parse.
C16_DeviceIDFromCert ==
    call.op = "DeviceIDFromCert" =>
        LET f == call.arg IN
        /\ ~f.exists =>
              call.res = "" /\ call.err = "iotcore: cert file does not exist"
        /\ (f.exists /\ f.readable /\ f.blocks = <<>>) =>
              call.res = "" /\ call.err = "iotcore: failed to decode PEM certificate"
        /\ (f.exists /\ f.readable /\ f.blocks # <<>>) =>
              LET b == f.blocks[1] IN
              /\ b.type # "CERTIFICATE" =>
                    /\ call.res = ""
                    /\ call.err = "iotcore: failed to decode PEM certificate"
              /\ (b.type = "CERTIFICATE" /\ ~b.parses) =>
                    /\ call.res = ""
                    /\ call.err \notin {"nil", "iotcore: cert file does not exist"}
              /\ (b.type = "CERTIFICATE" /\ b.parses) =>
                    call.res = b.cn /\ call.err = "nil"

\* DeviceIDFromCert was given a file that holds a certificate after a key,
\* and returned the decode error.
C16_Witness ==
    /\ call.op = "DeviceIDFromCert"
    /\ Len(call.arg.blocks) = 2
    /\ call.arg.blocks[1].type = "EC PRIVATE KEY"
    /\ call.arg.blocks[2].type = "CERTIFICATE"
    /\ call.res = ""
    /\ call.err = "iotcore: failed to decode PEM certificate"

\* C17: every invocation of a caching provider returns, whatever its path
\* (cache hit, mint, failed mint, failed read, failed write), and has unlocked
\* the mutex when it returns: a mutex is held only by an invocation that is
\* under way, so no caller waits for the lock forever.
C17_ReturnsAndUnlocks ==
    /\ [](\A d \in DOMAIN devs :
            devs[d].tmu => \E t \in Threads : InCriticalSection(t) /\ DevOf(t) = d)
    /\ \A t \in Threads : (th[t].pc # "idle") ~> (th[t].pc = "idle")

\* A caller waits for the mutex that another invocation of the same
\* provider holds.
C17_Witness ==
    \E t1, t2 \in Threads :
        /\ t1 # t2
        /\ th[t1].pc = "lock"
        /\ InCriticalSection(t2)
        /\ th[t1].p = th[t2].p
        /\ devs[DevOf(t1)].tmu

\* C18: an invocation of the no-caching provider goes from the call straight
\* to NewJWT, without locking, and returns after that one NewJWT call with
\* its token (or the sentinel); no step of it changes a Device (its cached
\* token, its mutex) or a token file, whatever happened before.
C18_NoCachingFrame ==
    [][\A t \in Threads :
          (th'[t] # th[t] /\ th'[t].p # 0
              /\ provs[th'[t].p].kind = "credentialsProvider")
          => LET d == provs[th'[t].p].dev
                 n == Len(mints'[d]) IN
             /\ devs' = devs
             /\ file' = file
             /\ \/ /\ th[t].pc = "idle" /\ th'[t].pc = "mint"
                   /\ mints' = mints
                \/ /\ th[t].pc = "mint" /\ th'[t].pc = "idle"
                   /\ n = Len(mints[d]) + 1
                   /\ mints'[d][n].kind = "credentialsProvider"
                   /\ th'[t].ret.pass = IF mints'[d][n].err = None
                                        THEN mints'[d][n].tok
                                        ELSE Sentinel
    ]_vars

\* The no-caching provider of a Device whose cached token is still valid
\* has minted and returned a token of its own.
C18_Witness ==
    \E t \in Threads :
        LET d == DevOf(t) IN
        /\ Done(t, Fresh)
        /\ Unexpired(devs[d], devs[d].token)
        /\ Len(mints[d]) = 2
        /\ mints[d][1].kind = Cached /\ mints[d][1].tok = devs[d].token
        /\ mints[d][2].kind = Fresh /\ mints[d][2].err = None
        /\ th[t].ret.pass = mints[d][2].tok
        /\ th[t].ret.pass # devs[d].token
        /\ ~devs[d].tmu

\* C19: the cached token of a Device is always empty or a token that a
\* successful NewJWT call of the in-memory provider on that Device returned,
\* and no token file ever holds the sentinel; an invocation whose NewJWT
\* call fails returns at once, and none of its steps (no step but the store
\* after a successful mint) changes a cached token or a token file.
C19_SentinelNeverStored ==
    /\ [](/\ \A d \in DOMAIN devs :
               \/ devs[d].token = Empty
               \/ \E m \in 1..Len(mints[d]) :
                     /\ mints[d][m].kind = "cachedCredentialsProvider"
                     /\ mints[d][m].err = None
                     /\ mints[d][m].tok = devs[d].token
          /\ \A f \in DOMAIN file :
               file[f] # [s |-> "error making new JWT"])
    /\ [][\A t \in Threads :
            /\ (th'[t] # th[t] /\ th[t].pc # "store")
               => /\ file' = file
                  /\ \A d \in DOMAIN devs : devs'[d].token = devs[d].token
            /\ (th[t].pc = "mint" /\ th'[t] # th[t]
                   /\ mints'[DevOf(t)][Len(mints'[DevOf(t)])].err # None)
               => th'[t].pc = "idle"
            /\ (th[t].pc = "store" /\ th'[t] # th[t])
               => th[t].token # [s |-> "error making new JWT"]
      ]_vars

\* An in-memory caching invocation has returned the sentinel, and the
\* Device still caches the token minted before.
C19_Witness ==
    \E t \in Threads :
        LET d == DevOf(t) IN
        /\ Done(t, Cached)
        /\ th[t].ret.pass = Sentinel
        /\ Len(mints[d]) = 2
        /\ mints[d][1].err = None
        /\ mints[d][2].err # None
        /\ devs[d].token = mints[d][1].tok

\* The step on which the caching provider of t checks its stored string, and
\* that string: d.token, or the content read from the file.
StoredCheck(t) ==
    \/ th[t].pc = "lock" /\ th'[t].pc # "lock" /\ ProvOf(t).kind = Cached
    \/ th[t].pc = "verify" /\ th'[t].pc # "verify"
Stored(t) ==
    IF ProvOf(t).kind = Cached THEN devs[DevOf(t)].token ELSE th[t].b

\* The string c is empty or malformed, signed by another key than the Device
\* d's, or past its exp claim.
Unusable(d, c) ==
    \/ ~IsJWT(c)
    \/ c.key # privateKey(d)
    \/ c.exp # 0 /\ Unix(now) > c.exp

TokensOf(k) ==
    UNION {{mints[d][m].tok : m \in {i \in 1..Len(mints[d]) :
                                mints[d][i].kind = k /\ mints[d][i].err = None}}
           : d \in DOMAIN devs}

\* C21: no step of the durable provider changes a cached token d.token and
\* no step of the in-memory provider changes a token file; a token minted by
\* one of the two strategies is never what the other returns; and each mints
\* on its first invocation (d.token still empty, the file not yet there),
\* whatever the other has stored.
C21_CachesDisjoint ==
    [][\A t \in Threads :
          (th'[t] # th[t] /\ th'[t].p # 0) =>
            LET k == provs[th'[t].p].kind
                d == provs[th'[t].p].dev IN
            /\ k = "persistentlyCachedCredentialsProvider" =>
                  /\ \A e \in DOMAIN devs : devs'[e].token = devs[e].token
                  /\ th'[t].ret.pass \notin TokensOf("cachedCredentialsProvider")
                  /\ (th[t].pc = "lock" /\ file[provs[th'[t].p].path] = NoFile)
                        => th'[t].pc = "mint"
            /\ k = "cachedCredentialsProvider" =>
                  /\ file' = file
                  /\ th'[t].ret.pass
                        \notin TokensOf("persistentlyCachedCredentialsProvider")
                  /\ (th[t].pc = "lock" /\ devs[d].token = Empty)
                        => th'[t].pc = "mint"
    ]_vars

\* On one Device object the in-memory provider and the durable provider have
\* each minted and returned a token of their own, both still unexpired: one
\* is in d.token, the other in the file.
C21_Witness ==
    \E t1, t2 \in Threads :
        LET d == DevOf(t1) IN
        /\ Done(t1, Cached) /\ Done(t2, Persistent)
        /\ DevOf(t2) = d
        /\ Len(mints[d]) = 2
        /\ mints[d][1].err = None /\ mints[d][2].err = None
        /\ mints[d][1].kind # mints[d][2].kind
        /\ Unexpired(devs[d], mints[d][1].tok)
        /\ Unexpired(devs[d], mints[d][2].tok)
        /\ devs[d].token = th[t1].ret.pass
        /\ file[ProvOf(t2).path] = th[t2].ret.pass
        /\ th[t1].ret.pass # th[t2].ret.pass
        /\ {th[t1].ret.pass, th[t2].ret.pass}
              = {mints[d][1].tok, mints[d][2].tok}

====
